---- MODULE Spec2Model ----
(***************************************************************************)
(* s3-project-backup: one run of the command line tool after another in    *)
(* one project directory.                                                  *)
(*                                                                         *)
(* A string is a sequence of atoms: an atom is a literal fragment of the   *)
(* program text ("s3://", "--exclude=", "\n") or a word supplied from      *)
(* outside (a bucket name, a file name).  Concatenation and f-strings are  *)
(* \o, the empty string is << >>.  An optional value (a file that may be   *)
(* absent, load_global_conf's None, the running child) is << >> when       *)
(* absent and <<v>> when present.                                          *)
(***************************************************************************)
EXTENDS Naturals, Sequences, FiniteSets

\* ------------------------------------------------------------- bounds
\* At most this many project entries (beside the three bookkeeping files)
\* are in the directory when the first run starts.
MaxEntries == 2

\* ------------------------------------------------------------- strings
None == << >>
Some(v) == <<v>>
Get(o) == o[1]

EmptyStr == << >>
LF == "\n"

Range(s) == {s[i] : i \in DOMAIN s}

\* x in lst, for a Python list lst
In(x, lst) == \E i \in DOMAIN lst : lst[i] = x

\* lst[k:], for a Python list or string (k counted from 0)
Slice(lst, k) == [i \in 1..(IF Len(lst) > k THEN Len(lst) - k ELSE 0) |-> lst[i + k]]

\* s.startswith(<<a>>)
startswith(s, a) == Len(s) > 0 /\ s[1] = a

Whitespace == {" ", LF, "\t"}

RECURSIVE lstrip(_)
lstrip(s) == IF Len(s) > 0 /\ s[1] \in Whitespace THEN lstrip(Tail(s)) ELSE s

RECURSIVE rstrip(_)
rstrip(s) ==
    IF Len(s) > 0 /\ s[Len(s)] \in Whitespace
    THEN rstrip(SubSeq(s, 1, Len(s) - 1))
    ELSE s

\* s.strip()
strip(s) == rstrip(lstrip(s))

\* s.split("\n"): the lines of s, the last one empty when s ends in "\n"
RECURSIVE split(_)
split(s) ==
    IF Len(s) = 0 THEN << EmptyStr >>
    ELSE LET rest == split(Tail(s))
         IN IF s[1] = LF
            THEN << EmptyStr >> \o rest
            ELSE << <<s[1]>> \o rest[1] >> \o Tail(rest)

\* [f for f in lst if keep(f)] with keep = "is a non-empty string"
RECURSIVE nonEmptyOnly(_)
nonEmptyOnly(lst) ==
    IF Len(lst) = 0 THEN << >>
    ELSE IF Len(lst[1]) > 0 \/ startswith(lst[1], "!")
         THEN << lst[1] >> \o nonEmptyOnly(Tail(lst))
         ELSE nonEmptyOnly(Tail(lst))

\* sub occurs in text
Contains(text, sub) ==
    \E k \in 0..Len(text) :
        /\ k + Len(sub) <= Len(text)
        /\ \A i \in 1..Len(sub) : text[k + i] = sub[i]

\* ------------------------------------------------------------- constants
CONF_PATH == <<"s3-project-backup.json">>
GITIGNORE_PATH == <<".gitignore">>
README_PATH == <<"README.md">>

EXCLUDE_ITEMS ==
    << <<"upload.sh">>,
       <<".gitignore">>,
       <<"s3-project-backup.json">>,
       <<"s3-project-backup.py">>,
       <<"_DS_Store">>,
       <<".DS_Store">> >>

DUPLICATED_ITEMS == << <<"README.md">> >>

GIT_IGNORE ==
    << LF,
       "/", "*", LF,
       "!", ".gitignore", LF,
       "!", "README.md", LF,
       "!", "s3-project-backup.json", LF >>

\* EXCLUDE_ITEMS + [p[1:].strip() for p in GIT_IGNORE.split("\n")[2:]
\*                  if p or p.startswith("!")]
CLEAN_IGNORE ==
    LET kept == nonEmptyOnly(Slice(split(GIT_IGNORE), 2))
    IN EXCLUDE_ITEMS \o [i \in DOMAIN kept |-> strip(Slice(kept[i], 1))]

DIRNAME == <<"DIRNAME">>
STANDARD == <<"STANDARD">>

\* ------------------------------------------------------------- inputs
\* The project entries a directory may hold, each with what it is.
EntryKind ==
    [n \in { <<"src">>, <<"main.go">>, <<"latest">>, <<"vendor">>,
             <<"dangling">>, <<"pipe">> } |->
        CASE n = <<"src">> -> "dir"
          [] n = <<"main.go">> -> "file"
          [] n = <<"latest">> -> "symlink_file"
          [] n = <<"vendor">> -> "symlink_dir"
          [] n = <<"dangling">> -> "symlink_broken"
          [] n = <<"pipe">> -> "fifo"]

EntryNames == DOMAIN EntryKind

\* What the name is on disk; the bookkeeping files are regular files.
Kind(n) == IF n \in EntryNames THEN EntryKind[n] ELSE "file"

\* Path.is_file(), is_dir() (both follow symbolic links) and is_symlink()
is_file(k) == k \in {"file", "symlink_file"}
is_dir(k) == k \in {"dir", "symlink_dir"}
is_symlink(k) == k \in {"symlink_file", "symlink_dir", "symlink_broken"}

\* The base name of the resolved current directory; empty at the root.
DirNames == { <<"proj">>, DIRNAME, EmptyStr }

Config(p, b, x, c) ==
    [aws_profile |-> p, s3_bucket |-> b, s3_path_prefix |-> x, s3_storage_class |-> c]

ConfigKeys == {"aws_profile", "s3_bucket", "s3_path_prefix", "s3_storage_class"}

EmptyConfig == Config(EmptyStr, EmptyStr, EmptyStr, EmptyStr)

\* Config files written by hand before the first run.
HandWritten ==
    { Config(<<"default">>, <<"bkt">>, DIRNAME, <<"GLACIER">>),
      Config(EmptyStr, <<"bkt">>, <<"docs">>, <<"GLACIER">>) }

\* Contents of the global template file (a missing key reads as "").
Templates ==
    { Config(<<"default">>, EmptyStr, DIRNAME, EmptyStr),
      Config(EmptyStr, <<"bkt">>, EmptyStr, <<"GLACIER">>) }

\* What the user may type at each prompt.
Typed ==
    [aws_profile |-> {EmptyStr, <<"default">>},
     s3_bucket |-> {EmptyStr, <<"bkt">>},
     s3_path_prefix |-> {EmptyStr, <<"docs">>, DIRNAME},
     s3_storage_class |-> {EmptyStr, <<"GLACIER">>}]

Commands == {"", "init", "upload", "download", "clean", "delete-local"}

\* Exit statuses of a child process.
ExitCodes == {0, 1, 2}

\* ------------------------------------------------------------- pure code
\* load_conf without the sentinel's replacement.
load_conf_noresolve(file, dn) == file

\* load_conf, after the file was found and parsed: file is the parsed
\* config, dn the base name of the resolved current directory (Some(name),
\* read only when the prefix is the sentinel).
load_conf(file, dn) ==
    IF file.s3_path_prefix = DIRNAME
    THEN [file EXCEPT !.s3_path_prefix = Get(dn)]
    ELSE file

\* The directory name load_conf reads: only a sentinel prefix makes it
\* resolve the current directory.
ResolvedBy(file) ==
    IF file.s3_path_prefix = DIRNAME
    THEN {Some(n) : n \in DirNames}
    ELSE {None}

build_s3_path(c) ==
    <<"s3://">> \o c.s3_bucket \o <<"/">> \o c.s3_path_prefix \o <<"/">>

\* [f"--exclude={e}" for e in EXCLUDE_ITEMS]
exclude_args == [i \in DOMAIN EXCLUDE_ITEMS |-> <<"--exclude=">> \o EXCLUDE_ITEMS[i]]

upload_cmd(c, dry) ==
    << <<"aws">>,
       <<"--profile=">> \o c.aws_profile,
       <<"s3">>,
       <<"sync">>,
       <<".">>,
       build_s3_path(c),
       <<"--storage-class=">> \o c.s3_storage_class,
       <<"--delete">> >>
    \o exclude_args
    \o (IF dry THEN << <<"--dryrun">> >> ELSE << >>)

\* download's list with upload's storage-class argument pasted in.
download_cmd_with_class(c, dry) ==
    << <<"aws">>,
       <<"--profile=">> \o c.aws_profile,
       <<"s3">>,
       <<"sync">>,
       build_s3_path(c),
       <<".">>,
       <<"--storage-class=">> \o c.s3_storage_class,
       <<"--delete">> >>
    \o exclude_args
    \o (IF dry THEN << <<"--dryrun">> >> ELSE << >>)

download_cmd(c, dry) ==
    << <<"aws">>,
       <<"--profile=">> \o c.aws_profile,
       <<"s3">>,
       <<"sync">>,
       build_s3_path(c),
       <<".">>,
       <<"--delete">> >>
    \o exclude_args
    \o (IF dry THEN << <<"--dryrun">> >> ELSE << >>)

\* init's fill with the storage-class answer assigned to the prefix field.
init_conf_pasted(base, a, dn) ==
    [aws_profile |->
        IF base.aws_profile = EmptyStr THEN a.aws_profile ELSE base.aws_profile,
     s3_bucket |->
        IF base.s3_bucket = EmptyStr THEN a.s3_bucket ELSE base.s3_bucket,
     s3_path_prefix |->
        IF base.s3_storage_class = EmptyStr
        THEN (IF a.s3_storage_class = EmptyStr THEN STANDARD ELSE a.s3_storage_class)
        ELSE base.s3_path_prefix,
     s3_storage_class |-> base.s3_storage_class]

\* The config init writes: base is the template (or the all-empty record),
\* a the answers typed at the prompts, dn the current directory's base name.
init_conf(base, a, dn) ==
    [aws_profile |->
        IF base.aws_profile = EmptyStr THEN a.aws_profile ELSE base.aws_profile,
     s3_bucket |->
        IF base.s3_bucket = EmptyStr THEN a.s3_bucket ELSE base.s3_bucket,
     s3_path_prefix |->
        IF base.s3_path_prefix = EmptyStr
        THEN (IF a.s3_path_prefix = EmptyStr THEN dn ELSE a.s3_path_prefix)
        ELSE base.s3_path_prefix,
     s3_storage_class |->
        IF base.s3_storage_class = EmptyStr
        THEN (IF a.s3_storage_class = EmptyStr THEN STANDARD ELSE a.s3_storage_class)
        ELSE base.s3_storage_class]

\* f.writelines([f"# s3://{bucket}/{prefix}\n", ""])
readme_text(c) ==
    <<"# ", "s3://">> \o c.s3_bucket \o <<"/">> \o c.s3_path_prefix \o <<LF>>

\* ------------------------------------------------------------- state
VARIABLES
    confFile,       \* s3-project-backup.json: None, or Some(parsed content)
    gitignoreFile,  \* .gitignore: None, or Some(text)
    readmeFile,     \* README.md: None, or Some(text)
    entries,        \* the other names present in the current directory
    confByInit,     \* the config file was written by init
    pc,             \* where the process is
    argv,           \* args.command
    dryrun,         \* args.d
    command,        \* command, after the direction heuristic
    exit_code,      \* the exit status (meaningful when pc = "done")
    child,          \* the child process being waited for: None, or Some(argv)
    nspawned,       \* child processes spawned by this run
    child_failed,   \* a child of this run exited with a non-zero status
    conf,           \* what load_conf returned to upload/download
    todo,           \* clean: the entries iterdir has yet to yield
    cur,            \* clean: the entry f being removed by rm
    seed,           \* init: what load_global_conf returned
    answers,        \* init: what was typed at each prompt
    prompted,       \* init: the fields a prompt was issued for
    dir_name,       \* pathlib.Path(".").resolve().name, when the run read it
    startListing    \* the names in the directory when the run started

files == <<confFile, gitignoreFile, readmeFile, entries>>
initVars == <<seed, answers, prompted>>
vars == <<confFile, gitignoreFile, readmeFile, entries, confByInit, pc, argv,
          dryrun, command, exit_code, child, nspawned, child_failed, conf,
          todo, cur, seed, answers, prompted, dir_name, startListing>>

\* CONF_PATH.exists()
CONF_PATH_exists == confFile # None

\* The names of the immediate children of the current directory.
Listing ==
    entries
    \cup (IF confFile # None THEN {CONF_PATH} ELSE {})
    \cup (IF gitignoreFile # None THEN {GITIGNORE_PATH} ELSE {})
    \cup (IF readmeFile # None THEN {README_PATH} ELSE {})

\* The heuristic without the duplicated-items list.
check_no_local_files_noDup ==
    \A d \in Listing : In(d, EXCLUDE_ITEMS)

check_no_local_files ==
    \A d \in Listing : In(d, EXCLUDE_ITEMS) \/ In(d, DUPLICATED_ITEMS)

\* check_no_conf doing what its name says.
check_no_conf_inverted == ~CONF_PATH_exists

check_no_conf == CONF_PATH_exists

Init ==
    /\ confFile \in {None} \cup {Some(c) : c \in HandWritten}
    /\ gitignoreFile \in {None, Some(<<"*.o", LF>>)}
    /\ readmeFile \in {None, Some(<<"# notes", LF>>)}
    /\ entries \in {s \in SUBSET EntryNames : Cardinality(s) <= MaxEntries}
    /\ confByInit = FALSE
    /\ pc = "idle"
    /\ argv = ""
    /\ dryrun = FALSE
    /\ command = ""
    /\ exit_code = 0
    /\ child = None
    /\ nspawned = 0
    /\ child_failed = FALSE
    /\ conf = None
    /\ todo = {}
    /\ cur = None
    /\ seed = None
    /\ answers = EmptyConfig
    /\ prompted = {}
    /\ dir_name = None
    /\ startListing = {}

\* ------------------------------------------------------------- run()
\* run(): parse the arguments, pick the direction when no command is given,
\* check the config file and dispatch.  A command that is none of the four
\* falls through every branch and the run ends with status 0.
Start(c, d) ==
    /\ pc \in {"idle", "done"}
    /\ argv' = c
    /\ dryrun' = d
    /\ LET cmd == IF c = ""
                  THEN (IF check_no_local_files THEN "download" ELSE "upload")
                  ELSE c
       IN /\ command' = cmd
          /\ IF cmd = "init"
             THEN pc' = "init" /\ exit_code' = 0 /\ todo' = {}
             ELSE IF ~check_no_conf
             THEN pc' = "done" /\ exit_code' = 1 /\ todo' = {}
             ELSE IF cmd \in {"download", "upload"}
             THEN pc' = cmd /\ exit_code' = 0 /\ todo' = {}
             ELSE IF cmd = "clean"
             THEN pc' = "clean" /\ exit_code' = 0 /\ todo' = Listing
             ELSE pc' = "done" /\ exit_code' = 0 /\ todo' = {}
    /\ child' = None
    /\ nspawned' = 0
    /\ child_failed' = FALSE
    /\ conf' = None
    /\ cur' = None
    /\ seed' = None
    /\ answers' = EmptyConfig
    /\ prompted' = {}
    /\ dir_name' = None
    /\ startListing' = Listing
    /\ UNCHANGED <<files, confByInit>>

\* ------------------------------------------------------------- sync
\* run_command starting the child without waiting for it.
run_command_nowait(cmd) ==
    /\ child' = Some(cmd)
    /\ nspawned' = nspawned + 1
    /\ pc' = "done"
    /\ UNCHANGED exit_code

\* run_command(cmd): print the command, start the child and wait for it.
run_command(cmd) ==
    /\ child' = Some(cmd)
    /\ nspawned' = nspawned + 1
    /\ pc' = "wait_sync"
    /\ UNCHANGED exit_code

\* load_conf raises when the config file is missing.
raise_not_found ==
    /\ pc' = "done"
    /\ exit_code' = 1
    /\ UNCHANGED <<child, nspawned, conf, dir_name>>

Upload ==
    /\ pc = "upload"
    /\ IF ~CONF_PATH_exists
       THEN raise_not_found
       ELSE \E dn \in ResolvedBy(Get(confFile)) :
              /\ dir_name' = dn
              /\ conf' = Some(load_conf(Get(confFile), dn))
              /\ run_command(upload_cmd(load_conf(Get(confFile), dn), dryrun))
    /\ UNCHANGED <<files, confByInit, argv, dryrun, command, child_failed,
                   todo, cur, initVars, startListing>>

Download ==
    /\ pc = "download"
    /\ IF ~CONF_PATH_exists
       THEN raise_not_found
       ELSE \E dn \in ResolvedBy(Get(confFile)) :
              /\ dir_name' = dn
              /\ conf' = Some(load_conf(Get(confFile), dn))
              /\ run_command(download_cmd(load_conf(Get(confFile), dn), dryrun))
    /\ UNCHANGED <<files, confByInit, argv, dryrun, command, child_failed,
                   todo, cur, initVars, startListing>>

\* The sync child exits: subprocess.run(check=True) returns on status 0 and
\* raises CalledProcessError otherwise, which nothing catches.  What the
\* sync did to the local tree and to the bucket is the external tool's.
SyncExit(code) ==
    /\ pc = "wait_sync"
    /\ child # None
    /\ child' = None
    /\ child_failed' = (code # 0)
    /\ exit_code' = IF code = 0 THEN 0 ELSE 1
    /\ pc' = "done"
    /\ UNCHANGED <<files, confByInit, argv, dryrun, command, nspawned, conf,
                   todo, cur, initVars, dir_name, startListing>>

\* ------------------------------------------------------------- init
\* init() past the check: seed the config from the global template, prompt
\* for every field still empty, write the config file, the ignore file and,
\* when there is none, the readme.
InitBody ==
    \E tpl \in {None} \cup {Some(t) : t \in Templates},
       a \in [ConfigKeys -> UNION {Typed[k] : k \in ConfigKeys}],
       dn \in {None} \cup {Some(n) : n \in DirNames} :
        LET base == IF tpl = None THEN EmptyConfig ELSE Get(tpl)
            asked == {k \in ConfigKeys : base[k] = EmptyStr}
            filled == init_conf(base, a, IF dn = None THEN EmptyStr ELSE Get(dn))
        IN /\ \A k \in ConfigKeys :
                IF k \in asked THEN a[k] \in Typed[k] ELSE a[k] = EmptyStr
           /\ (dn # None) <=> ("s3_path_prefix" \in asked)
           /\ seed' = tpl
           /\ prompted' = asked
           /\ answers' = a
           /\ dir_name' = dn
           /\ confFile' = Some(filled)
           /\ confByInit' = TRUE
           /\ gitignoreFile' = Some(GIT_IGNORE)
           /\ readmeFile' = IF readmeFile = None
                            THEN Some(readme_text(filled))
                            ELSE readmeFile
           /\ pc' = "done"
           /\ exit_code' = 0
           /\ UNCHANGED <<entries, argv, dryrun, command, child, nspawned,
                          child_failed, conf, todo, cur, startListing>>

\* init() printing the message and going on.
InitRefuse_noexit ==
    /\ pc = "init"
    /\ CONF_PATH_exists
    /\ InitBody

\* init() with the config file already there: a message and sys.exit(1).
InitRefuse ==
    /\ pc = "init"
    /\ CONF_PATH_exists
    /\ pc' = "done"
    /\ exit_code' = 1
    /\ UNCHANGED <<files, confByInit, argv, dryrun, command, child, nspawned,
                   child_failed, conf, todo, cur, initVars, dir_name,
                   startListing>>

InitWizard ==
    /\ pc = "init"
    /\ ~CONF_PATH_exists
    /\ InitBody

\* ------------------------------------------------------------- clean
\* f is gone from the directory.
Removed(f) ==
    /\ entries' = entries \ {f}
    /\ confFile' = IF f = CONF_PATH THEN None ELSE confFile
    /\ gitignoreFile' = IF f = GITIGNORE_PATH THEN None ELSE gitignoreFile
    /\ readmeFile' = IF f = README_PATH THEN None ELSE readmeFile

\* f.unlink(): the entry is removed, or the call raises and the run dies.
unlink(f, ok) ==
    IF ok
    THEN Removed(f) /\ pc' = "clean" /\ UNCHANGED exit_code
    ELSE UNCHANGED files /\ pc' = "done" /\ exit_code' = 1

\* One turn of clean's loop, on an entry f that iterdir yields, up to the
\* point where the turn ends or rm is started.
CleanStep ==
    /\ pc = "clean"
    /\ \E f \in todo :
        /\ todo' = todo \ {f}
        /\ IF In(f, CLEAN_IGNORE) \/ dryrun
           THEN UNCHANGED <<files, pc, exit_code, child, nspawned, cur>>
           ELSE IF is_file(Kind(f))
           THEN /\ \E ok \in BOOLEAN : unlink(f, ok)
                /\ UNCHANGED <<child, nspawned, cur>>
           ELSE IF is_dir(Kind(f))
           THEN /\ child' = Some(<< <<"rm">>, <<"-rf">>, f >>)
                /\ nspawned' = nspawned + 1
                /\ cur' = Some(f)
                /\ pc' = "wait_rm"
                /\ UNCHANGED <<files, exit_code>>
           ELSE IF is_symlink(Kind(f))
           THEN /\ \E ok \in BOOLEAN : unlink(f, ok)
                /\ UNCHANGED <<child, nspawned, cur>>
           ELSE UNCHANGED <<files, pc, exit_code, child, nspawned, cur>>
    /\ UNCHANGED <<confByInit, argv, dryrun, command, child_failed, conf,
                   initVars, dir_name, startListing>>

\* rm -rf f exits: subprocess.run without check=True returns whatever the
\* status.  Status 0 means f is gone; otherwise f is still there and, when
\* it is a symbolic link, the last test of the turn unlinks it.
RmExit(code) ==
    /\ pc = "wait_rm"
    /\ child # None
    /\ child' = None
    /\ cur' = None
    /\ child_failed' = (child_failed \/ code # 0)
    /\ IF code = 0
       THEN Removed(Get(cur)) /\ pc' = "clean" /\ UNCHANGED exit_code
       ELSE IF is_symlink(Kind(Get(cur)))
       THEN \E ok \in BOOLEAN : unlink(Get(cur), ok)
       ELSE UNCHANGED <<files, exit_code>> /\ pc' = "clean"
    /\ UNCHANGED <<confByInit, argv, dryrun, command, nspawned, conf, todo,
                   initVars, dir_name, startListing>>

\* The loop is over: clean returns, run returns, status 0.
CleanDone ==
    /\ pc = "clean"
    /\ todo = {}
    /\ pc' = "done"
    /\ exit_code' = 0
    /\ UNCHANGED <<files, confByInit, argv, dryrun, command, child, nspawned,
                   child_failed, conf, todo, cur, initVars, dir_name,
                   startListing>>

\* ------------------------------------------------------------- system
Next ==
    \/ \E c \in Commands, d \in BOOLEAN : Start(c, d)
    \/ InitRefuse
    \/ InitWizard
    \/ Upload
    \/ Download
    \/ \E code \in ExitCodes : SyncExit(code)
    \/ CleanStep
    \/ \E code \in ExitCodes : RmExit(code)
    \/ CleanDone

Spec == Init /\ [][Next]_vars

\* ------------------------------------------------------------- properties
\* The names of the exclusion set and of the duplicated-items set.
Listed == Range(EXCLUDE_ITEMS) \cup Range(DUPLICATED_ITEMS)

\* The places of argument x in the argument list cmd.
Pos(cmd, x) == {i \in DOMAIN cmd : cmd[i] = x}

\* The arguments of cmd that start with the atom a.
Starting(cmd, a) == {i \in DOMAIN cmd : startswith(cmd[i], a)}

\* C1: a run with no explicit command selects download if and only if
\* every immediate child of the current directory has a name in the
\* exclusion set or the duplicated-items set, and upload otherwise; with
\* only s3-project-backup.json and README.md present it is download, and
\* with src present as well it is upload.
C1_DirectionHeuristic ==
    [][ (pc \in {"idle", "done"} /\ argv' = "") =>
          /\ command' \in {"download", "upload"}
          /\ (command' = "download") <=> (\A n \in Listing : n \in Listed)
          /\ (Listing = {CONF_PATH, README_PATH} => command' = "download")
          /\ (<<"src">> \in Listing => command' = "upload") ]_vars

C1_Witness ==
    /\ pc = "download"
    /\ argv = ""
    /\ command = "download"
    /\ startListing = {CONF_PATH, README_PATH}

\* C2: the argument list built for upload has "." before the remote URI
\* and a storage-class argument, the one built for download has the remote
\* URI before "." and no storage-class argument, and both have the
\* mirror-delete flag and exactly one exclusion argument for each entry of
\* the exclusion set, for every loaded config and either dry-run flag.
C2_SyncCommand ==
    pc = "wait_sync" =>
        LET cmd == Get(child)
            uri == build_s3_path(Get(conf))
            local == Pos(cmd, <<".">>)
            remote == Pos(cmd, uri)
        IN /\ local # {} /\ remote # {}
           /\ command = "upload" =>
                /\ \A i \in local, j \in remote : i < j
                /\ Starting(cmd, "--storage-class=") # {}
           /\ command = "download" =>
                /\ \A i \in local, j \in remote : j < i
                /\ Starting(cmd, "--storage-class=") = {}
           /\ Pos(cmd, <<"--delete">>) # {}
           /\ \A e \in Range(EXCLUDE_ITEMS) :
                Cardinality(Pos(cmd, <<"--exclude=">> \o e)) = 1
           /\ Cardinality(Starting(cmd, "--exclude=")) = Cardinality(Range(EXCLUDE_ITEMS))
           /\ (dryrun <=> Pos(cmd, <<"--dryrun">>) # {})

C2_Witness ==
    /\ pc = "wait_sync"
    /\ command = "download"
    /\ dryrun
    /\ dir_name = Some(<<"proj">>)
    /\ Get(conf).s3_path_prefix = <<"proj">>

\* C3: clean in dry-run mode leaves the set of entries of the current
\* directory as it was; clean in live mode, once it has run to its end,
\* has removed every direct child (file, directory or symbolic link) whose
\* name is not in the combined exclusion/duplication list and has left
\* every entry whose name is in that list in place.
C3_CleanEffect ==
    (pc = "done" /\ command = "clean" /\ exit_code = 0) =>
        /\ dryrun => Listing = startListing
        /\ ~dryrun =>
              \A n \in startListing :
                 IF n \in Listed
                 THEN n \in Listing
                 ELSE (is_file(Kind(n)) \/ is_dir(Kind(n)) \/ is_symlink(Kind(n)))
                         => n \notin Listing

\* C4: init invoked while the config file exists ends the run with a
\* non-zero status, leaves the config file, the ignore file and the readme
\* (and every other entry) as they were, and issues no prompt.
C4_InitRefuses ==
    [][ (pc = "init" /\ CONF_PATH_exists) =>
          /\ pc' = "done"
          /\ exit_code' # 0
          /\ files' = files
          /\ prompted' = {}
          /\ answers' = EmptyConfig ]_vars

C4_Witness ==
    /\ pc = "done"
    /\ command = "init"
    /\ exit_code = 1
    /\ CONF_PATH_exists
    /\ ~confByInit
    /\ gitignoreFile = None
    /\ readmeFile = None

\* The init step of a run started in an empty project root, with no global
\* template and all four prompts answered non-empty.
C5_Case ==
    /\ pc = "init"
    /\ Listing = {}
    /\ seed' = None
    /\ prompted' = ConfigKeys
    /\ \A k \in ConfigKeys : answers'[k] # EmptyStr

\* C5 as stated: such an init produces a config file holding exactly the
\* four supplied values, an ignore file equal to the fixed template, and a
\* readme containing the resolved remote URI, the string the sync path
\* builds (s3://bucket/prefix/).
C5_ReadmeHasSyncURI ==
    [][ C5_Case =>
          /\ confFile' = Some(answers')
          /\ gitignoreFile' = Some(GIT_IGNORE)
          /\ readmeFile' # None
          /\ Contains(Get(readmeFile'),
                      build_s3_path(load_conf(Get(confFile'), dir_name'))) ]_vars

\* C5 amended: such an init produces a config file holding exactly the four
\* supplied values, an ignore file equal to the fixed template, and a
\* readme that is the one line "# s3://<bucket>/<prefix>" and a newline,
\* bucket and prefix as typed: the remote URI without its trailing slash
\* and with a prefix typed as the sentinel left unresolved.
C5_InitOutput ==
    [][ C5_Case =>
          /\ confFile' = Some(answers')
          /\ gitignoreFile' = Some(GIT_IGNORE)
          /\ readmeFile' =
                Some(<<"# ", "s3://">> \o answers'.s3_bucket \o <<"/">>
                     \o answers'.s3_path_prefix \o <<LF>>)
          /\ Contains(Get(readmeFile'),
                      <<"s3://">> \o answers'.s3_bucket \o <<"/">>
                      \o answers'.s3_path_prefix) ]_vars

C5_Witness ==
    /\ pc = "done"
    /\ command = "init"
    /\ exit_code = 0
    /\ startListing = {}
    /\ seed = None
    /\ answers = Config(<<"default">>, <<"bkt">>, <<"docs">>, <<"GLACIER">>)
    /\ Listing = {CONF_PATH, GITIGNORE_PATH, README_PATH}

\* C6: a run whose command is upload, download or clean (given, or chosen
\* by the direction heuristic) and that finds no config file ends with a
\* non-zero status, has spawned no child process and has deleted nothing.
C6_MissingConfig ==
    (pc # "idle" /\ command \in {"upload", "download", "clean"} /\ ~CONF_PATH_exists) =>
        /\ pc = "done"
        /\ exit_code # 0
        /\ nspawned = 0
        /\ child = None
        /\ Listing = startListing

C6_Witness ==
    /\ pc = "done"
    /\ argv = "clean"
    /\ ~dryrun
    /\ ~CONF_PATH_exists
    /\ exit_code = 1
    /\ entries = {<<"src">>, <<"main.go">>}

\* C7: when a child process spawned by the tool, the external sync or the
\* recursive delete, exits with a non-zero status, the run stops there and
\* the tool ends with a non-zero status.
C7_ChildFailureFatal ==
    child_failed => (pc = "done" /\ exit_code # 0)

DirsToRemove == {n \in startListing : n \notin Listed /\ is_dir(Kind(n))}

C8_Counts ==
    /\ (command \in {"upload", "download"} /\ pc \in {"wait_sync", "done"}) =>
          nspawned = (IF conf # None THEN 1 ELSE 0)
    /\ (command \in {"upload", "download"} /\ pc = "done") =>
          (conf # None <=> startListing \cap {CONF_PATH} # {})
    /\ (command = "clean" /\ dryrun) => nspawned = 0
    /\ (command = "clean" /\ ~dryrun /\ pc = "done" /\ exit_code = 0) =>
          nspawned = Cardinality(DirsToRemove)
    /\ (command = "clean" /\ ~dryrun) => nspawned <= Cardinality(DirsToRemove)
    /\ command \notin {"upload", "download", "clean"} => nspawned = 0
    /\ child # None => pc \in {"wait_sync", "wait_rm"}
    /\ pc \in {"wait_sync", "wait_rm"} => child # None

C9_LoadedConfigComplete ==
    (pc = "wait_sync" /\ confByInit) =>
        /\ \A k \in ConfigKeys : Get(conf)[k] # EmptyStr
        /\ Get(conf).s3_path_prefix # DIRNAME

\* C9 amended: a config file init writes has a non-empty storage class; its
\* profile and bucket are empty when neither the template nor the answer
\* gave one; its prefix is empty only when the prompt was answered empty at
\* the file system root.  The Config a later upload or download loads from
\* it has the stored profile, bucket and storage class, and the stored
\* prefix unless that is the sentinel DIRNAME, which is replaced by the
\* current directory's base name: the loaded prefix is the sentinel only in
\* a directory named DIRNAME.
C9_LoadedConfig ==
    /\ confByInit => Get(confFile).s3_storage_class # EmptyStr
    /\ (pc = "done" /\ command = "init" /\ exit_code = 0) =>
          LET f == Get(confFile)
              base == IF seed = None THEN EmptyConfig ELSE Get(seed)
          IN /\ \A k \in {"aws_profile", "s3_bucket"} :
                  f[k] = EmptyStr <=> (base[k] = EmptyStr /\ answers[k] = EmptyStr)
             /\ f.s3_path_prefix = EmptyStr <=>
                  /\ base.s3_path_prefix = EmptyStr
                  /\ answers.s3_path_prefix = EmptyStr
                  /\ dir_name = Some(EmptyStr)
    /\ (pc = "wait_sync" /\ confByInit) =>
          LET f == Get(confFile)
              c == Get(conf)
          IN /\ c.aws_profile = f.aws_profile
             /\ c.s3_bucket = f.s3_bucket
             /\ c.s3_storage_class = f.s3_storage_class
             /\ c.s3_storage_class # EmptyStr
             /\ IF f.s3_path_prefix = DIRNAME
                THEN dir_name # None /\ c.s3_path_prefix = Get(dir_name)
                ELSE c.s3_path_prefix = f.s3_path_prefix
             /\ c.s3_path_prefix = DIRNAME => dir_name = Some(DIRNAME)

C9_Witness ==
    /\ pc = "wait_sync"
    /\ confByInit
    /\ Get(confFile).s3_path_prefix = DIRNAME
    /\ dir_name = Some(<<"proj">>)
    /\ Get(conf).s3_path_prefix = <<"proj">>
    /\ Get(conf).aws_profile = EmptyStr

\* C10: the names clean skips are all in the exclusion set or the
\* duplicated-items set, so the run with no explicit command that follows
\* a live clean in which every removal succeeded selects download.
C10_CleanThenDownload ==
    [][ /\ Range(CLEAN_IGNORE) \subseteq Listed
        /\ (pc = "done" /\ command = "clean" /\ ~dryrun /\ exit_code = 0
              /\ ~child_failed /\ argv' = "")
            => command' = "download" ]_vars
====
